---------------------------- MODULE Spec2Model ----------------------------
(***************************************************************************)
(* Model of CadastroComponent (src/app/produto/cadastro/                   *)
(* cadastro.component.ts): the reactive form, its validators, the          *)
(* create/edit mode decided from the route parameters, the derived         *)
(* warranty end date and the submit dispatcher.                            *)
(***************************************************************************)
EXTENDS Integers, Sequences, FiniteSets, TLC

(***************************************************************************)
(* Bounds of the model.                                                    *)
(***************************************************************************)
MaxEmissions == 2
MaxSubmits == 2
MaxEdits == 1

(***************************************************************************)
(* JavaScript values.  Every value is a record [t, k, n, s]:               *)
(*   t  the type tag (undefined, null, string, number, date)               *)
(*   k  for numbers finite / NaN / Infinity / -Infinity, for dates valid /  *)
(*      invalid                                                            *)
(*   n  the integer of a finite number, or the UTC calendar day of a date  *)
(*      written y * 10000 + m * 100 + d                                    *)
(*   s  the characters of a string                                         *)
(***************************************************************************)
Undef == [t |-> "undefined", k |-> "", n |-> 0, s |-> <<>>]
Null == [t |-> "null", k |-> "", n |-> 0, s |-> <<>>]
Str(chars) == [t |-> "string", k |-> "", n |-> 0, s |-> chars]
Num(i) == [t |-> "number", k |-> "finite", n |-> i, s |-> <<>>]
NaN == [t |-> "number", k |-> "NaN", n |-> 0, s |-> <<>>]
Infinity == [t |-> "number", k |-> "Infinity", n |-> 0, s |-> <<>>]
NegInfinity == [t |-> "number", k |-> "-Infinity", n |-> 0, s |-> <<>>]
DateOf(ymd) == [t |-> "date", k |-> "valid", n |-> ymd, s |-> <<>>]
InvalidDate == [t |-> "date", k |-> "invalid", n |-> 0, s |-> <<>>]

Empty == Str(<<>>)

DigitChars == <<"0", "1", "2", "3", "4", "5", "6", "7", "8", "9">>

IsDigit(c) == \E i \in 1..10 : DigitChars[i] = c

DigitOf(c) == (CHOOSE i \in 1..10 : DigitChars[i] = c) - 1

AllDigits(chars) == \A i \in 1..Len(chars) : IsDigit(chars[i])

RECURSIVE DigitsValue(_)
DigitsValue(chars) ==
    IF chars = <<>> THEN 0
    ELSE 10 * DigitsValue(SubSeq(chars, 1, Len(chars) - 1)) + DigitOf(chars[Len(chars)])

RECURSIVE NatToChars(_)
NatToChars(i) ==
    IF i < 10 THEN <<DigitChars[i + 1]>>
    ELSE NatToChars(i \div 10) \o <<DigitChars[(i % 10) + 1]>>

InfinityChars == <<"I", "n", "f", "i", "n", "i", "t", "y">>

\* The number an unsigned numeric string stands for: digits, or "Infinity"
UnsignedNumber(chars) ==
    IF chars # <<>> /\ AllDigits(chars) THEN Num(DigitsValue(chars))
    ELSE IF chars = InfinityChars THEN Infinity
    ELSE NaN

\* -x of a number x
Negate(v) ==
    CASE v.k = "finite" -> Num(0 - v.n)
      [] v.k = "Infinity" -> NegInfinity
      [] v.k = "-Infinity" -> Infinity
      [] v.k = "NaN" -> NaN

\* Number(v): the empty string is 0, a digit string its value, "Infinity"
\* the infinite number, each with an optional sign, any other string NaN
\* (the strings of this model have no blanks, fractions or exponents); null
\* is 0, undefined NaN.
ToNumber(v) ==
    CASE v.t = "number" -> v
      [] v.t = "null" -> Num(0)
      [] v.t = "undefined" -> NaN
      [] v.t = "string" ->
            IF v.s = <<>> THEN Num(0)
            ELSE IF v.s[1] = "-" THEN Negate(UnsignedNumber(Tail(v.s)))
            ELSE IF v.s[1] = "+" THEN UnsignedNumber(Tail(v.s))
            ELSE UnsignedNumber(v.s)

\* isNaN(x) of a number x
IsNaN(v) == v.t = "number" /\ v.k = "NaN"

\* JavaScript truthiness: undefined, null, "", 0 and NaN are falsy.
Truthy(v) ==
    CASE v.t = "undefined" -> FALSE
      [] v.t = "null" -> FALSE
      [] v.t = "string" -> v.s # <<>>
      [] v.t = "number" -> v.k \in {"Infinity", "-Infinity"} \/ (v.k = "finite" /\ v.n # 0)
      [] OTHER -> TRUE

(***************************************************************************)
(* Calendar arithmetic of Date.                                            *)
(***************************************************************************)
YearOf(ymd) == ymd \div 10000
MonthOf(ymd) == (ymd \div 100) % 100
DayOf(ymd) == ymd % 100
Ymd(y, m, d) == y * 10000 + m * 100 + d

IsLeap(y) == (y % 4 = 0 /\ y % 100 # 0) \/ y % 400 = 0

DaysInMonth(y, m) ==
    IF m = 2 THEN (IF IsLeap(y) THEN 29 ELSE 28)
    ELSE IF m \in {4, 6, 9, 11} THEN 30 ELSE 31

PrevDay(ymd) ==
    LET y == YearOf(ymd)
        m == MonthOf(ymd)
        d == DayOf(ymd)
    IN  IF d > 1 THEN Ymd(y, m, d - 1)
        ELSE IF m > 1 THEN Ymd(y, m - 1, DaysInMonth(y, m - 1))
        ELSE Ymd(y - 1, 12, 31)

NextDay(ymd) ==
    LET y == YearOf(ymd)
        m == MonthOf(ymd)
        d == DayOf(ymd)
    IN  IF d < DaysInMonth(y, m) THEN Ymd(y, m, d + 1)
        ELSE IF m < 12 THEN Ymd(y, m + 1, 1)
        ELSE Ymd(y + 1, 1, 1)

\* MakeDay: month index mi (0 = January, any integer) and day d of year y,
\* a day beyond the month's end running over into the next month.
MakeDay(y, mi, d) ==
    LET yy == y + (mi \div 12)
        mm == (mi % 12) + 1
    IN  IF d <= DaysInMonth(yy, mm) THEN Ymd(yy, mm, d)
        ELSE IF mm < 12 THEN Ymd(yy, mm + 1, d - DaysInMonth(yy, mm))
        ELSE Ymd(yy + 1, 1, d - DaysInMonth(yy, mm))

\* A date string "YYYY-MM-DD" is parsed as UTC midnight of that day.
IsIsoDate(chars) ==
    /\ Len(chars) = 10
    /\ chars[5] = "-" /\ chars[8] = "-"
    /\ \A i \in {1, 2, 3, 4, 6, 7, 9, 10} : IsDigit(chars[i])

ParseIsoDate(chars) ==
    LET y == DigitsValue(SubSeq(chars, 1, 4))
        m == DigitsValue(SubSeq(chars, 6, 7))
        d == DigitsValue(SubSeq(chars, 9, 10))
    IN  IF m \in 1..12 /\ d >= 1 /\ d <= DaysInMonth(y, m)
        THEN DateOf(Ymd(y, m, d)) ELSE InvalidDate

\* new Date(v): a number is a count of milliseconds since 1970-01-01 UTC
\* (the numbers of this model lie within a day of it).
NewDate(v) ==
    CASE v.t = "date" -> v
      [] v.t = "string" -> IF IsIsoDate(v.s) THEN ParseIsoDate(v.s) ELSE InvalidDate
      [] v.t = "null" -> DateOf(19700101)
      [] v.t = "number" /\ v.k # "finite" -> InvalidDate
      [] v.t = "number" /\ v.k = "finite" /\ v.n >= 0 /\ v.n < 86400000 ->
            DateOf(19700101)
      [] v.t = "number" /\ v.k = "finite" /\ v.n < 0 /\ v.n >= 0 - 86400000 ->
            DateOf(19691231)
      [] v.t = "undefined" -> InvalidDate


\* The calendar day a Date shows in local time.  The dates of this model are
\* UTC midnights: west of Greenwich that instant is still the evening of
\* the day before, elsewhere it is the same day.
LocalDay(ymd, west) == IF west THEN PrevDay(ymd) ELSE ymd

UtcDay(localYmd, west) == IF west THEN NextDay(localYmd) ELSE localYmd

\* date.getMonth(): the local month index, 0 = January
GetMonth(date, west) ==
    IF date.k = "valid" THEN Num(MonthOf(LocalDay(date.n, west)) - 1) ELSE NaN

\* ToString of a value used as the right operand of +
ToChars(v) ==
    CASE v.t = "string" -> v.s
      [] v.t = "number" /\ v.k = "finite" /\ v.n >= 0 -> NatToChars(v.n)
      [] v.t = "number" /\ v.k = "finite" /\ v.n < 0 -> <<"-">> \o NatToChars(0 - v.n)
      [] v.t = "number" /\ v.k = "NaN" -> <<"N", "a", "N">>
      [] v.t = "number" /\ v.k = "Infinity" -> InfinityChars
      [] v.t = "number" /\ v.k = "-Infinity" -> <<"-">> \o InfinityChars
      [] v.t = "null" -> <<"n", "u", "l", "l">>
      [] v.t = "undefined" -> <<"u", "n", "d", "e", "f", "i", "n", "e", "d">>

\* a + b for a number a: string concatenation when b is a string, numeric
\* addition otherwise.
Plus(a, b) ==
    IF b.t = "string" THEN Str(ToChars(a) \o b.s)
    ELSE LET nb == ToNumber(b)
         IN  IF a.k = "NaN" \/ nb.k = "NaN" THEN NaN
             ELSE IF nb.k # "finite" THEN nb
             ELSE IF a.k # "finite" THEN a
             ELSE Num(a.n + nb.n)

\* date.setMonth(arg): the month index is ToNumber(arg); the local day of
\* month and time of day are kept and the result is normalised.
SetMonth(date, arg, west) ==
    LET mi == ToNumber(arg)
        loc == LocalDay(date.n, west)
    IN  IF date.k # "valid" \/ mi.k # "finite" THEN InvalidDate
        ELSE DateOf(UtcDay(MakeDay(YearOf(loc), mi.n, DayOf(loc)), west))

(***************************************************************************)
(* Reactive forms: a control holds a value, a disabled flag and the names  *)
(* of its validators; a group is a function from control names to          *)
(* controls.                                                               *)
(***************************************************************************)
Control(v, dis, vals) == [value |-> v, disabled |-> dis, validators |-> vals]

\* Validators.required
RequiredFails(v) == v.t \in {"null", "undefined"} \/ (v.t = "string" /\ v.s = <<>>)

\* numberValidator: isNaN(Number(control.value))
NumberValidatorFails(v) == IsNaN(ToNumber(v))

\* stringValidator: typeof control.value !== 'string'
StringValidatorFails(v) == v.t # "string"

\* dateValidator: isNaN(new Date(control.value).getTime())
DateValidatorFails(v) == NewDate(v).k # "valid"

\* The error keys the validators of a control report for its value.
ControlErrors(c) ==
    {e \in c.validators :
        \/ e = "required" /\ RequiredFails(c.value)
        \/ e = "invalidNumber" /\ NumberValidatorFails(c.value)
        \/ e = "invalidString" /\ StringValidatorFails(c.value)
        \/ e = "invalidDate" /\ DateValidatorFails(c.value)}

\* The group declared with the produtoForm property
DeclaredForm ==
    [nome |-> Control(Empty, FALSE, {"required"}),
     dataCompra |-> Control(Empty, FALSE, {"required"}),
     duracaoGarantiaMeses |-> Control(Empty, FALSE, {"required"}),
     dataFimGarantia |-> Control(Empty, TRUE, {})]

\* createForm(): the group that replaces it
CreatedForm ==
    [id |-> Control(Empty, FALSE, {"required", "invalidNumber"}),
     nome |-> Control(Empty, FALSE, {"required", "invalidString"}),
     dataCompra |-> Control(Empty, FALSE, {"required", "invalidDate"}),
     duracaoGarantiaMeses |-> Control(Empty, FALSE, {"required", "invalidNumber"})]

\* FormGroup.valid: no enabled control reports an error
FormValid(group) ==
    \A name \in DOMAIN group : group[name].disabled \/ ControlErrors(group[name]) = {}

\* FormGroup._reduceValue(): the values of the enabled controls
ReduceValue(group) ==
    [name \in {c \in DOMAIN group : ~group[c].disabled} |-> group[name].value]

\* FormGroup.patchValue(obj): every key of obj that names a control sets
\* that control's value; the other keys are ignored.
PatchControls(group, obj) ==
    [name \in DOMAIN group |->
        IF name \in DOMAIN obj
        THEN [group[name] EXCEPT !.value = obj[name]]
        ELSE group[name]]

\* obj.key, undefined when the object has no such property
Get(obj, key) == IF key \in DOMAIN obj THEN obj[key] ELSE Undef

\* obj.key = v
Put(obj, key, v) ==
    [name \in DOMAIN obj \cup {key} |-> IF name = key THEN v ELSE obj[name]]

(***************************************************************************)
(* The inputs of the model.                                                *)
(***************************************************************************)
Chars7 == <<"7">>
CharsX == <<"x">>
CharsTV == <<"T", "V">>
Chars12 == <<"1", "2">>
CharsJan15 == <<"2", "0", "2", "4", "-", "0", "1", "-", "1", "5">>
CharsJan31 == <<"2", "0", "2", "4", "-", "0", "1", "-", "3", "1">>
CharsMar01 == <<"2", "0", "2", "4", "-", "0", "3", "-", "0", "1">>

\* params['id'] of the route: absent, or the text of the URL segment
ParamIds == {Undef, Str(Chars7), Str(CharsX)}

\* What the user can put into each field of the form
FieldValues(name) ==
    CASE name = "id" -> {Empty, Str(Chars7), Str(CharsX)}
      [] name = "nome" -> {Empty, Str(CharsTV)}
      [] name = "dataCompra" ->
            {Empty, Str(CharsJan15), Str(CharsX)}
      [] name = "duracaoGarantiaMeses" ->
            {Empty, Num(12), Str(CharsX)}
      [] OTHER -> {}

\* An object is a function from property names to values; a fetch result
\* is either an object (v = ObjectV) or a plain value.
ObjectV == [t |-> "object", k |-> "", n |-> 0, s |-> <<>>]
NoFields == [name \in {} |-> Undef]
Result(v, fields) == [v |-> v, fields |-> fields]
NoResult == Result(ObjectV, NoFields)

ProdutoA ==
    [id |-> Num(7), nome |-> Str(CharsTV), dataCompra |-> Str(CharsJan15),
     duracaoGarantiaMeses |-> Num(12)]

ProdutoB ==
    [id |-> Num(8), nome |-> Null, dataCompra |-> Str(CharsMar01),
     duracaoGarantiaMeses |-> Num(1), dataFimGarantia |-> Str(CharsJan31)]

Produtos == {ProdutoA, ProdutoB}

\* What getProdutoById can deliver: a product, or an empty result
FetchResults ==
    {Result(ObjectV, p) : p \in Produtos} \cup {Result(Null, NoFields), Result(Undef, NoFields)}

MsgUpdated == "Produto atualizado com sucesso"
MsgUpdateFailed == "Erro ao atualizar o produto"
MsgCreated == "Produto cadastrado com sucesso"
MsgCreateFailed == "Erro ao cadastrar o produto"

(***************************************************************************)
(* The state of the component and of its collaborators.                    *)
(***************************************************************************)
VARIABLES
    phase,        \* "constructed" before ngOnInit, "ready" after it
    produtoForm,  \* the controls of this.produtoForm
    formValue,    \* the object this.produtoForm.value refers to
    produtoId,    \* this.produtoId
    isEditing,    \* this.isEditing
    routeId,      \* the id parameter the route currently holds
    subAlive,     \* whether the subscription to route.params is still open
    emissions,    \* how many parameter emissions the component has handled
    fetches,      \* the getProdutoById calls switchMap is subscribed to
    fetchCount,   \* how many times getProdutoById has been called
    calls,        \* every addProduto / updateProduto call, in order, each with
                  \* what its callback did (snackBar.open, dialog.closeAll,
                  \* console.error) in order
    sent,         \* the product handed to the service by the handler that ran
                  \* last, no object when it made no call
    submits,      \* how many times onSubmit has run
    unhandled,    \* errors that reached the subscriber without a handler
    delivered,    \* what getProdutoById delivered to the handler that ran
                  \* last, NoResult when nothing was delivered to it
    calculated,   \* whether the handler that ran last was
                  \* calcularDataFimGarantia
    cancelled,    \* how many pending getProdutoById calls the handler that
                  \* ran last unsubscribed from
    edits         \* how many times the user has changed a field

vars ==
    <<phase, produtoForm, formValue, produtoId, isEditing, routeId, subAlive,
      emissions, fetches, fetchCount, calls, sent, submits, unhandled, delivered,
      calculated, cancelled, edits>>

component == <<produtoForm, formValue, produtoId, isEditing>>
routing == <<routeId, subAlive, emissions, fetches, fetchCount, unhandled>>
service == <<calls, submits>>

Init ==
    /\ phase = "constructed"
    /\ produtoForm = DeclaredForm
    /\ formValue = ReduceValue(DeclaredForm)
    /\ produtoId = Num(0)
    /\ isEditing = FALSE
    /\ routeId \in ParamIds
    /\ subAlive = FALSE
    /\ emissions = 0
    /\ fetches = {}
    /\ fetchCount = 0
    /\ calls = <<>>
    /\ sent = NoFields
    /\ submits = 0
    /\ unhandled = 0
    /\ edits = 0
    /\ delivered = NoResult
    /\ calculated = FALSE
    /\ cancelled = 0

(***************************************************************************)
(* checkEditMode: the function given to switchMap, run for every emission  *)
(* of route.params, and the subscriber of the products it delivers.        *)
(***************************************************************************)
\* Variant: the inner observables of earlier emissions stay subscribed
\* (mergeMap).
MergeInner(old, new) == old \cup new

\* switchMap unsubscribes from the inner observable of the emission before
\* and subscribes to the new one.
SwitchInner(old, new) == new

\* Variant: an emission without an id goes back to Create mode.
ProjectIsEditingReset(id) == Truthy(id)

ProjectIsEditing(id) == IF Truthy(id) THEN TRUE ELSE isEditing

\* Variant: an emission without an id clears the stored identifier.
ProjectProdutoIdReset(id) == IF Truthy(id) THEN ToNumber(id) ELSE Num(0)

ProjectProdutoId(id) == IF Truthy(id) THEN ToNumber(id) ELSE produtoId

\* Variant: the product is fetched whether or not the route has an id.
ProjectInnerAlways(id) == {[seq |-> emissions + 1, id |-> ToNumber(id)]}

\* The inner observable: getProdutoById(this.produtoId) or the empty array
ProjectInner(id) ==
    IF Truthy(id) THEN {[seq |-> emissions + 1, id |-> ToNumber(id)]} ELSE {}

HandleParams(id) ==
    /\ isEditing' = ProjectIsEditing(id)
    /\ produtoId' = ProjectProdutoId(id)
    /\ fetches' = SwitchInner(fetches, ProjectInner(id))
    /\ fetchCount' = fetchCount + Cardinality(ProjectInner(id))
    /\ cancelled' = Cardinality(fetches \ fetches')
    /\ emissions' = emissions + 1

\* ngOnInit: createForm(), then checkEditMode() subscribes to route.params,
\* which emits the current parameters at once.
NgOnInit ==
    /\ phase = "constructed"
    /\ phase' = "ready"
    /\ produtoForm' = CreatedForm
    /\ formValue' = ReduceValue(CreatedForm)
    /\ subAlive' = TRUE
    /\ HandleParams(routeId)
    /\ delivered' = NoResult
    /\ calculated' = FALSE
    /\ sent' = NoFields
    /\ UNCHANGED <<routeId, service, unhandled, edits>>

\* The router changes the parameters while the component is alive.
RouteEmit(id) ==
    /\ phase = "ready"
    /\ subAlive
    /\ emissions < MaxEmissions
    /\ id # routeId
    /\ routeId' = id
    /\ HandleParams(id)
    /\ delivered' = NoResult
    /\ calculated' = FALSE
    /\ sent' = NoFields
    /\ UNCHANGED <<phase, produtoForm, formValue, subAlive, service, unhandled, edits>>

\* The subscriber: if (this.isEditing && produto) patchValue(produto)
SubscriberPatches(res) == isEditing /\ Truthy(res.v)

\* Variant: the product fills only the fields that are still empty.
SubscriberFormKeepsEdits(res) ==
    IF SubscriberPatches(res)
    THEN [name \in DOMAIN produtoForm |->
            IF name \in DOMAIN res.fields /\ produtoForm[name].value = Empty
            THEN [produtoForm[name] EXCEPT !.value = res.fields[name]]
            ELSE produtoForm[name]]
    ELSE produtoForm

\* Variant: an empty result clears the form.
SubscriberFormBlank(res) ==
    IF SubscriberPatches(res) THEN PatchControls(produtoForm, res.fields) ELSE CreatedForm

SubscriberForm(res) ==
    IF SubscriberPatches(res) THEN PatchControls(produtoForm, res.fields) ELSE produtoForm

SubscriberValue(res) ==
    IF SubscriberPatches(res) THEN ReduceValue(SubscriberForm(res)) ELSE formValue

\* A pending getProdutoById delivers its result and completes.
FetchNext(f, res) ==
    /\ subAlive
    /\ f \in fetches
    /\ fetches' = fetches \ {f}
    /\ produtoForm' = SubscriberForm(res)
    /\ formValue' = SubscriberValue(res)
    /\ delivered' = res
    /\ calculated' = FALSE
    /\ cancelled' = 0
    /\ sent' = NoFields
    /\ UNCHANGED <<phase, produtoId, isEditing, routeId, subAlive, emissions,
                   fetchCount, service, unhandled, edits>>

\* A pending getProdutoById fails: the subscriber has no error handler, so
\* the error ends the subscription to route.params and is reported unhandled.
FetchError(f) ==
    /\ subAlive
    /\ f \in fetches
    /\ fetches' = {}
    /\ subAlive' = FALSE
    /\ unhandled' = unhandled + 1
    /\ delivered' = NoResult
    /\ calculated' = FALSE
    /\ cancelled' = 0
    /\ sent' = NoFields
    /\ UNCHANGED <<phase, component, routeId, emissions, fetchCount, service, edits>>

(***************************************************************************)
(* The user changes a field: the control takes the value and the group     *)
(* recomputes its value object.                                            *)
(***************************************************************************)
SetField(name, v) ==
    /\ phase = "ready"
    /\ edits < MaxEdits
    /\ name \in DOMAIN produtoForm
    /\ ~produtoForm[name].disabled
    /\ v # produtoForm[name].value
    /\ produtoForm' = [produtoForm EXCEPT ![name].value = v]
    /\ formValue' = ReduceValue(produtoForm')
    /\ edits' = edits + 1
    /\ delivered' = NoResult
    /\ calculated' = FALSE
    /\ cancelled' = 0
    /\ sent' = NoFields
    /\ UNCHANGED <<phase, produtoId, isEditing, routing, service>>

(***************************************************************************)
(* calcularDataFimGarantia                                                 *)
(***************************************************************************)
\* Variant: only the purchase date is tested.
CalcularGuardDateOnly(value) == Truthy(Get(value, "dataCompra"))

\* if (dataCompra && duracaoMeses)
CalcularGuard(value) ==
    Truthy(Get(value, "dataCompra")) /\ Truthy(Get(value, "duracaoGarantiaMeses"))

\* new Date(dataCompra), then setMonth(getMonth() + duracaoMeses)
DataFimGarantiaOf(dataCompra, duracaoMeses, w) ==
    LET d == NewDate(dataCompra)
    IN  SetMonth(d, Plus(GetMonth(d, w), duracaoMeses), w)

\* patchValue({ dataFimGarantia }) on the form as it is
CalcularForm(group, value, w) ==
    IF CalcularGuard(value)
    THEN PatchControls(group,
            [dataFimGarantia |->
                DataFimGarantiaOf(value.dataCompra, value.duracaoGarantiaMeses, w)])
    ELSE group

\* The time zone of the browser decides the local day: either side of
\* Greenwich is possible.
CalcularDataFimGarantia ==
    /\ phase = "ready"
    /\ \E west \in BOOLEAN : produtoForm' = CalcularForm(produtoForm, formValue, west)
    /\ formValue' = IF CalcularGuard(formValue) THEN ReduceValue(produtoForm') ELSE formValue
    /\ delivered' = NoResult
    /\ calculated' = TRUE
    /\ cancelled' = 0
    /\ sent' = NoFields
    /\ UNCHANGED <<phase, produtoId, isEditing, routing, service, edits>>

(***************************************************************************)
(* onSubmit and the callbacks of the call it launches                      *)
(***************************************************************************)
\* Variant: the stored identifier is attached only when the form has no id
\* of its own.
SubmitProdutoKeepsFormId(value, editing, id) ==
    IF editing /\ ~Truthy(Get(value, "id")) THEN Put(value, "id", id) ELSE value

\* Variant: the stored identifier is attached in both modes.
SubmitProdutoAlwaysId(value, editing, id) == Put(value, "id", id)

\* const produto = this.produtoForm.value; in Edit mode produto.id =
\* this.produtoId.  produto is the form's value object itself.
SubmitProduto(value, editing, id) == IF editing THEN Put(value, "id", id) ELSE value

SubmitOp(editing) == IF editing THEN "update" ELSE "add"

\* Variant: a submit is dropped while an earlier call is unresolved.
LaunchCallUnlessPending(cs, op) ==
    IF \E i \in 1..Len(cs) : cs[i].st = "pending" THEN cs
    ELSE Append(cs, [op |-> op, st |-> "pending", effects |-> <<>>])

\* updateProduto(produto).subscribe(...) / addProduto(produto).subscribe(...):
\* a new call, whatever the state of the calls before it.
LaunchCall(cs, op) == Append(cs, [op |-> op, st |-> "pending", effects |-> <<>>])

OnSubmit ==
    /\ phase = "ready"
    /\ submits < MaxSubmits
    /\ submits' = submits + 1
    /\ formValue' = SubmitProduto(formValue, isEditing, produtoId)
    /\ calls' = LaunchCall(calls, SubmitOp(isEditing))
    /\ sent' = formValue'
    /\ delivered' = NoResult
    /\ calculated' = FALSE
    /\ cancelled' = 0
    /\ UNCHANGED <<phase, produtoForm, produtoId, isEditing, routing, edits>>

Snack(msg) == [kind |-> "snackBar.open", msg |-> msg]
CloseAll == [kind |-> "dialog.closeAll", msg |-> ""]
ConsoleError == [kind |-> "console.error", msg |-> ""]

\* Variant: the success message is shown and the dialogs stay open.
SuccessEffectsNoClose(op) ==
    <<Snack(IF op = "update" THEN MsgUpdated ELSE MsgCreated)>>

\* The success callback of a call of operation op
SuccessEffects(op) ==
    <<Snack(IF op = "update" THEN MsgUpdated ELSE MsgCreated), CloseAll>>

\* Variant: the error is logged and nothing is shown.
ErrorEffectsSilent(op) == <<ConsoleError>>

\* Variant: the error callback closes the dialogs too.
ErrorEffectsCloses(op) ==
    <<ConsoleError, Snack(IF op = "update" THEN MsgUpdateFailed ELSE MsgCreateFailed),
      CloseAll>>

\* The error callback of a call of operation op
ErrorEffects(op) ==
    <<ConsoleError, Snack(IF op = "update" THEN MsgUpdateFailed ELSE MsgCreateFailed)>>

CallSuccess(i) ==
    /\ i \in 1..Len(calls)
    /\ calls[i].st = "pending"
    /\ calls' = [calls EXCEPT ![i].st = "ok",
                              ![i].effects = @ \o SuccessEffects(calls[i].op)]
    /\ delivered' = NoResult
    /\ calculated' = FALSE
    /\ cancelled' = 0
    /\ sent' = NoFields
    /\ UNCHANGED <<phase, component, routing, submits, edits>>

CallError(i) ==
    /\ i \in 1..Len(calls)
    /\ calls[i].st = "pending"
    /\ calls' = [calls EXCEPT ![i].st = "failed",
                              ![i].effects = @ \o ErrorEffects(calls[i].op)]
    /\ delivered' = NoResult
    /\ calculated' = FALSE
    /\ cancelled' = 0
    /\ sent' = NoFields
    /\ UNCHANGED <<phase, component, routing, submits, edits>>

FieldNames == {"id", "nome", "dataCompra", "duracaoGarantiaMeses", "dataFimGarantia"}

Next ==
    \/ NgOnInit
    \/ \E id \in ParamIds : RouteEmit(id)
    \/ \E f \in fetches, res \in FetchResults : FetchNext(f, res)
    \/ \E f \in fetches : FetchError(f)
    \/ \E name \in FieldNames : \E v \in FieldValues(name) : SetField(name, v)
    \/ CalcularDataFimGarantia
    \/ OnSubmit
    \/ \E i \in 1..MaxSubmits : CallSuccess(i)
    \/ \E i \in 1..MaxSubmits : CallError(i)

Spec == Init /\ [][Next]_vars

(***************************************************************************)
(* The number validator on the values a control can come to hold: the      *)
(* controls of id and duracaoGarantiaMeses carry numberValidator, and the   *)
(* user (or a patched product) gives them a value.                         *)
(***************************************************************************)
CharsNaN == <<"N", "a", "N">>

ValidatorInputs ==
    {Empty, Str(<<"0">>), Str(Chars7), Str(Chars12), Str(CharsX), Str(<<"1", "x">>),
     Str(<<"-">>), Str(<<"-", "7">>), Str(<<"+", "7">>), Str(CharsNaN),
     Str(InfinityChars), Str(<<"-">> \o InfinityChars),
     Num(0), Num(7), Num(12), Num(0 - 1), NaN, Infinity, NegInfinity, Null, Undef}

NumberFields == {"id", "duracaoGarantiaMeses"}

NextValidator ==
    \/ NgOnInit
    \/ \E name \in NumberFields : \E v \in ValidatorInputs : SetField(name, v)

SpecValidator == Init /\ [][NextValidator]_vars

(***************************************************************************)
(* Properties                                                              *)
(***************************************************************************)
Last(seq) == seq[Len(seq)]

\* The handler that ran last was onSubmit and it handed a product to the
\* service.
JustSubmitted == sent # NoFields

\* Every field of the form holds the empty value createForm gave it.
InitialFields == \A name \in DOMAIN produtoForm : produtoForm[name].value = Empty

\* C1: a submit in Edit mode launches exactly one call, an update, and the
\* product it hands over carries the stored identifier as its id, whatever
\* the form's own id field holds.
C1_EditSubmitUpdatesStoredId ==
    (JustSubmitted /\ isEditing) =>
        /\ Len(calls) = submits
        /\ Last(calls).op = "update"
        /\ Last(calls).st = "pending"
        /\ "id" \in DOMAIN sent
        /\ sent.id = produtoId

\* C1 witness: an update was just launched while the form's own id field
\* holds a value that is a different number from the stored identifier.
C1_Witness ==
    /\ JustSubmitted /\ isEditing
    /\ Last(calls).op = "update"
    /\ Truthy(produtoForm.id.value)
    /\ ToNumber(produtoForm.id.value) # produtoId
    /\ sent.id = produtoId

\* C2: a submit in Create mode launches exactly one call, an add, and the
\* product it hands over is the form's values as they are: its id is the
\* form's own id field, no identifier is attached.
C2_CreateSubmitAddsUnchanged ==
    (JustSubmitted /\ ~isEditing) =>
        /\ Len(calls) = submits
        /\ Last(calls).op = "add"
        /\ Last(calls).st = "pending"
        /\ sent = ReduceValue(produtoForm)

\* C2 witness: an add was just launched with the id field left empty, and
\* the product handed over has the empty id, not the stored 0.
C2_Witness ==
    /\ JustSubmitted /\ ~isEditing
    /\ Last(calls).op = "add"
    /\ produtoForm.id.value = Empty
    /\ sent.id = Empty
    /\ produtoId = Num(0)

\* C3 as claimed: no call is launched by a submit while a field of the form
\* fails validation.
C3_InvalidFormBlocksSubmit == JustSubmitted => FormValid(produtoForm)

\* What the form reports as dataFimGarantia: the value of that control,
\* undefined when the form has no such control.
FormDataFimGarantia ==
    IF "dataFimGarantia" \in DOMAIN produtoForm
    THEN produtoForm.dataFimGarantia.value ELSE Undef

Unset(v) == v \in {Undef, Null, Empty}

\* dataCompra and duracaoGarantiaMeses are both filled in and pass their
\* validators.
InputsPresentAndValid ==
    /\ ~RequiredFails(produtoForm.dataCompra.value)
    /\ ~DateValidatorFails(produtoForm.dataCompra.value)
    /\ ~RequiredFails(produtoForm.duracaoGarantiaMeses.value)
    /\ ~NumberValidatorFails(produtoForm.duracaoGarantiaMeses.value)

\* C4 as claimed: after ngOnInit the form's dataFimGarantia is dataCompra
\* plus duracaoGarantiaMeses months whenever both are present and valid, and
\* unset otherwise.
C4_EndDateFollowsInputs ==
    phase = "ready" =>
        IF InputsPresentAndValid
        THEN \E w \in BOOLEAN :
                FormDataFimGarantia =
                    DataFimGarantiaOf(produtoForm.dataCompra.value,
                                      produtoForm.duracaoGarantiaMeses.value, w)
        ELSE Unset(FormDataFimGarantia)

\* A step in which the component handled an emission of route.params
EmissionStep == emissions' = emissions + 1

\* ... and the emitted parameters carry an id
IdEmissionStep == EmissionStep /\ Truthy(routeId')

\* C5 as claimed: after the first emission of the route parameters,
\* isEditing and produtoId never change.
C5_ModeFixedAfterInit ==
    [][emissions >= 1 => (isEditing' = isEditing /\ produtoId' = produtoId)]_vars

\* C5 amended: isEditing and produtoId change only when an emission that
\* carries an id is handled; it sets isEditing and stores the number of the
\* id.  No other step changes either, and isEditing never goes back to
\* false.
C5_ModeChangesOnlyOnIdEmission ==
    [][/\ IdEmissionStep => (isEditing' /\ produtoId' = ToNumber(routeId'))
       /\ ~IdEmissionStep => (isEditing' = isEditing /\ produtoId' = produtoId)]_vars

\* C5 witness: the mode changed after initialization: the first emission had
\* no id (no fetch, Create mode), the second one put the component in Edit
\* mode.
C5_Witness ==
    /\ emissions = 2 /\ fetchCount = 1
    /\ isEditing /\ produtoId = ToNumber(routeId)
    /\ submits >= 1 /\ Last(calls).op = "add"

\* C6 as claimed: getProdutoById is called at most once.
C6_AtMostOneFetch == fetchCount <= 1

\* C6 amended: getProdutoById is called once for every emission of the
\* route parameters that carries an id and at no other time, and the
\* component is subscribed to at most one of these calls at a time.
C6_OneFetchPerIdEmission ==
    [][/\ fetchCount' = fetchCount + (IF IdEmissionStep THEN 1 ELSE 0)
       /\ Cardinality(fetches') <= 1]_vars

\* C6 witness: two emissions with an id, two calls of getProdutoById
C6_Witness == fetchCount = 2 /\ emissions = 2 /\ Cardinality(fetches) = 1

\* C7 as claimed: once the component is in Create mode after ngOnInit it
\* stays there, no fetch is ever issued, and the fields stay empty until
\* the user edits them.
C7_CreateModeForever ==
    [][(emissions >= 1 /\ ~isEditing) =>
            (~isEditing' /\ fetchCount' = 0 /\ (edits' = 0 => InitialFields'))]_vars

\* C7 amended: the component stays in Create mode until an emission that
\* carries an id is handled, and while it is in Create mode no fetch has
\* been issued, none is pending, and the fields are empty until the user
\* edits them.
C7_CreateModeUntilIdEmission ==
    [][/\ (emissions >= 1 /\ ~isEditing /\ ~IdEmissionStep) => ~isEditing'
       /\ (emissions' >= 1 /\ ~isEditing') =>
            /\ fetchCount' = 0
            /\ fetches' = {}
            /\ delivered' = NoResult
            /\ edits' = 0 => InitialFields']_vars

\* C7 witness: initialized without an id, a submit and its failure later
\* the component is still in Create mode with no fetch and empty fields.
C7_Witness ==
    /\ phase = "ready" /\ ~isEditing /\ routeId = Undef
    /\ fetchCount = 0 /\ edits = 0 /\ InitialFields
    /\ submits >= 1 /\ calls[1].st = "failed"

ProductFields == {"id", "nome", "dataCompra", "duracaoGarantiaMeses"}

\* The fetch delivered a product to the handler that ran last.
ProductDelivered == delivered # NoResult /\ Truthy(delivered.v)

\* The fetch delivered an empty result to the handler that ran last.
EmptyDelivered == ~Truthy(delivered.v)

\* C8: an emission that carries an id (the one at initialization included)
\* puts the component in Edit mode, stores the number of the id and calls
\* getProdutoById with it; when the call delivers a product, id, nome,
\* dataCompra and duracaoGarantiaMeses of the form are the product's.
C8_EditModeFetchesAndFills ==
    [][/\ IdEmissionStep =>
            /\ isEditing'
            /\ produtoId' = ToNumber(routeId')
            /\ fetchCount' = fetchCount + 1
            /\ \E f \in fetches' : f.id = produtoId'
       /\ ProductDelivered' =>
            \A name \in ProductFields :
                produtoForm'[name].value = delivered'.fields[name]]_vars

\* C8 witness: a product arrived after the user had changed a field, and
\* the form holds the product's fields.
C8_Witness ==
    /\ ProductDelivered /\ edits = 1 /\ isEditing
    /\ \A name \in ProductFields : produtoForm[name].value = delivered.fields[name]

\* A step in which a pending fetch failed
FetchErrorStep == subAlive /\ ~subAlive'

\* C9: a fetch that fails or delivers an empty result changes no field of
\* the form and leaves the component in Edit mode with the stored
\* identifier; fields nobody has filled are still empty.
C9_EmptyFetchLeavesForm ==
    [][(FetchErrorStep \/ EmptyDelivered') =>
            /\ produtoForm' = produtoForm
            /\ formValue' = formValue
            /\ isEditing /\ isEditing'
            /\ produtoId' = produtoId
            /\ (emissions' = 1 /\ edits' = 0) => InitialFields']_vars

\* C9 witness: the fetch of the initial id delivered null and the form is
\* still empty, in Edit mode.
C9_Witness ==
    /\ delivered = Result(Null, NoFields)
    /\ isEditing /\ produtoId = Num(7)
    /\ emissions = 1 /\ edits = 0 /\ InitialFields

ComponentState == <<produtoForm, formValue, isEditing, produtoId>>

FailureMsg(op) == IF op = "update" THEN MsgUpdateFailed ELSE MsgCreateFailed

\* C10: when a call fails its callback logs the error and then opens one
\* notification, the failure message of its operation; no call is launched
\* or restarted, and the form, isEditing and produtoId are unchanged.
C10_FailureNotifiesOnce ==
    [][\A i \in 1..Len(calls) :
          (calls[i].st = "pending" /\ calls'[i].st = "failed") =>
            /\ calls'[i].effects = <<ConsoleError, Snack(FailureMsg(calls[i].op))>>
            /\ FailureMsg(calls[i].op) \notin {MsgUpdated, MsgCreated}
            /\ calls'[i].op = calls[i].op
            /\ Len(calls') = Len(calls)
            /\ \A j \in 1..Len(calls) : j # i => calls'[j] = calls[j]
            /\ submits' = submits
            /\ fetchCount' = fetchCount
            /\ ComponentState' = ComponentState]_vars

\* C10 witness: an update and an add have both failed, each with its own
\* message, after the user had filled a field.
C10_Witness ==
    /\ Len(calls) = 2 /\ edits = 1
    /\ calls[1].st = "failed" /\ calls[2].st = "failed"
    /\ calls[1].op = "add" /\ calls[2].op = "update"
    /\ calls[1].effects = <<ConsoleError, Snack(MsgCreateFailed)>>
    /\ calls[2].effects = <<ConsoleError, Snack(MsgUpdateFailed)>>

SuccessMsg(op) == IF op = "update" THEN MsgUpdated ELSE MsgCreated

\* C11: when a call succeeds its callback opens the success notification
\* of its operation and then calls dialog.closeAll, once, for every call
\* that succeeds.
C11_SuccessNotifiesThenCloses ==
    [][\A i \in 1..Len(calls) :
          (calls[i].st = "pending" /\ calls'[i].st = "ok") =>
            /\ calls'[i].effects = <<Snack(SuccessMsg(calls[i].op)), CloseAll>>
            /\ \A j \in 1..Len(calls) : j # i => calls'[j] = calls[j]]_vars

\* C11 witness: an add and an update have both succeeded, and each closed
\* the dialogs after its own message.
C11_Witness ==
    /\ Len(calls) = 2
    /\ calls[1].op = "add" /\ calls[1].st = "ok"
    /\ calls[2].op = "update" /\ calls[2].st = "ok"
    /\ calls[1].effects = <<Snack(MsgCreated), CloseAll>>
    /\ calls[2].effects = <<Snack(MsgUpdated), CloseAll>>

\* What a call in state st of operation op has signalled
OutcomeOf(op, st) ==
    CASE st = "pending" -> <<>>
      [] st = "ok" -> <<Snack(SuccessMsg(op)), CloseAll>>
      [] st = "failed" -> <<ConsoleError, Snack(FailureMsg(op))>>

\* C12: every run of onSubmit launches exactly one new pending call of the
\* operation of the current mode, also while earlier calls are unresolved,
\* and leaves the earlier calls as they are; so there are as many calls as
\* submits, and every call has signalled the outcome of its own result and
\* nothing else.
C12_OneCallPerSubmit ==
    [][/\ submits' = submits + 1 =>
            /\ Len(calls') = Len(calls) + 1
            /\ SubSeq(calls', 1, Len(calls)) = calls
            /\ Last(calls') = [op |-> IF isEditing THEN "update" ELSE "add",
                               st |-> "pending", effects |-> <<>>]
       /\ Len(calls') = submits'
       /\ \A i \in 1..Len(calls') :
            calls'[i].effects = OutcomeOf(calls'[i].op, calls'[i].st)]_vars

\* C12 witness: two submits were made and both calls are unresolved at the
\* same time.
C12_Witness ==
    /\ submits = 2 /\ Len(calls) = 2
    /\ calls[1].st = "pending" /\ calls[2].st = "pending"

\* The day the claim expects: day d of the month n months after month m of
\* year y, the months beyond December carried into the year.
ExpectedEndDay(ymd, n) ==
    LET mi == (MonthOf(ymd) - 1) + n
    IN  Ymd(YearOf(ymd) + (mi \div 12), (mi % 12) + 1, DayOf(ymd))

\* The form holds a valid purchase date with a day of at most 28 and a
\* duration of at least one whole month.
ValidPurchaseAndDuration ==
    LET d == NewDate(produtoForm.dataCompra.value)
        n == ToNumber(produtoForm.duracaoGarantiaMeses.value)
    IN  /\ ~RequiredFails(produtoForm.dataCompra.value)
        /\ ~RequiredFails(produtoForm.duracaoGarantiaMeses.value)
        /\ d.k = "valid" /\ DayOf(d.n) <= 28
        /\ n.k = "finite" /\ n.n >= 1

\* C13 as claimed: after calcularDataFimGarantia ran on such a form, the
\* form's dataFimGarantia is the purchase day moved on by the months of the
\* duration (2024-01-15 and 12 months give 2025-01-15).
C13_EndDateIsPurchasePlusMonths ==
    (phase = "ready" /\ calculated /\ ValidPurchaseAndDuration) =>
        FormDataFimGarantia =
            DateOf(ExpectedEndDay(NewDate(produtoForm.dataCompra.value).n,
                                  ToNumber(produtoForm.duracaoGarantiaMeses.value).n))

\* The purchase date or the duration is missing from the form.
InputMissing ==
    \/ Unset(produtoForm.dataCompra.value)
    \/ Unset(produtoForm.duracaoGarantiaMeses.value)

\* C14: a run of calcularDataFimGarantia while the purchase date or the
\* duration is missing changes neither the controls nor the value object of
\* the form nor isEditing nor produtoId, and an unset end date stays unset.
C14_MissingInputNoUpdate ==
    [][(calculated' /\ InputMissing) =>
            /\ ComponentState' = ComponentState
            /\ FormDataFimGarantia' = FormDataFimGarantia
            /\ Unset(FormDataFimGarantia')]_vars

\* C14 witness: calcularDataFimGarantia ran with a purchase date and no
\* duration, in Edit mode after a submit, and the form's value object still
\* is the one the submit left.
C14_Witness ==
    /\ calculated /\ isEditing /\ submits >= 1
    /\ ~Unset(produtoForm.dataCompra.value)
    /\ Unset(produtoForm.duracaoGarantiaMeses.value)
    /\ formValue # ReduceValue(produtoForm)
    /\ Unset(FormDataFimGarantia)

IsFinite(v) == v.t = "number" /\ v.k = "finite"

\* C15 as claimed: numberValidator reports no invalidNumber error exactly
\* when the value of its control converts to a finite number.
C15_NumberValidatorIffFinite ==
    phase = "ready" =>
        \A name \in NumberFields :
            ("invalidNumber" \notin ControlErrors(produtoForm[name]))
                <=> IsFinite(ToNumber(produtoForm[name].value))

\* C16: only the fetch issued for the most recent emission of the route
\* parameters can populate the form.  Every emission, with or without an
\* id, unsubscribes from the fetch that is still pending, so the pending
\* fetches always belong to the latest emission and carry the stored id; a
\* result is delivered only by such a fetch; and the controls change only
\* through such a delivery, a user's edit or ngOnInit.
C16_OnlyLatestFetchPopulates ==
    [][/\ \A f \in fetches' : f.seq = emissions' /\ f.id = produtoId'
       /\ EmissionStep =>
            (cancelled' = Cardinality(fetches) /\ fetches \cap fetches' = {})
       /\ delivered' # NoResult =>
            \E f \in fetches : f.seq = emissions /\ fetches' = fetches \ {f}
       /\ (produtoForm' # produtoForm /\ delivered' = NoResult) =>
            (edits' = edits + 1 \/ phase = "constructed")]_vars

\* C16 witness: the route emitted a second id while the fetch of the first
\* was pending; that fetch was dropped and only the second one is pending.
C16_Witness ==
    /\ emissions = 2 /\ cancelled = 1 /\ fetchCount = 2
    /\ Cardinality(fetches) = 1
    /\ \A f \in fetches : f.seq = 2 /\ f.id = ToNumber(routeId)

\* C17: Edit mode is absorbing.  Once isEditing is true it stays true, also
\* across an emission of the route parameters without an id, and produtoId
\* keeps the number of the last emitted id: an emission with an id stores
\* its number and no other step changes produtoId.  Whenever isEditing is
\* false, produtoId is 0 and getProdutoById has never been called.
C17_EditModeAbsorbing ==
    [][/\ isEditing => isEditing'
       /\ IdEmissionStep => produtoId' = ToNumber(routeId')
       /\ ~IdEmissionStep => produtoId' = produtoId
       /\ ~isEditing' => (produtoId' = Num(0) /\ fetchCount' = 0)]_vars

\* C17 witness: after an emission without an id the component is still in
\* Edit mode with the id of the emission before.
C17_Witness ==
    /\ isEditing /\ emissions = 2 /\ routeId = Undef
    /\ produtoId = Num(7) /\ fetchCount = 1

\* How many times the callbacks of call c have invoked dialog.closeAll
CloseAllCount(c) == Cardinality({j \in 1..Len(c.effects) : c.effects[j] = CloseAll})

\* The dialog.closeAll invocations made so far, as (call, position) pairs
CloseAlls(cs) ==
    UNION {{<<i, j>> : j \in {k \in 1..Len(cs[i].effects) : cs[i].effects[k] = CloseAll}} :
            i \in 1..Len(cs)}

\* The notifications that name operation op
MessagesOf(op) ==
    IF op = "update" THEN {MsgUpdated, MsgUpdateFailed} ELSE {MsgCreated, MsgCreateFailed}

\* C18: dialog.closeAll is invoked only by the callback of a call that
\* succeeded, in the step in which that call succeeds: never when a call
\* fails, a fetch answers or onSubmit runs.  There are never more closeAll
\* invocations than successful calls, and every notification names the
\* operation of the call it belongs to.
C18_CloseAllOnlyOnSuccess ==
    [][/\ \A i \in 1..Len(calls') :
            /\ CloseAllCount(calls'[i]) > 0 => calls'[i].st = "ok"
            /\ \A j \in 1..Len(calls'[i].effects) :
                 calls'[i].effects[j].kind = "snackBar.open" =>
                    calls'[i].effects[j].msg \in MessagesOf(calls'[i].op)
       /\ Cardinality(CloseAlls(calls')) <=
            Cardinality({i \in 1..Len(calls') : calls'[i].st = "ok"})
       /\ CloseAlls(calls') # CloseAlls(calls) =>
            /\ \E i \in 1..Len(calls) :
                 calls[i].st = "pending" /\ calls'[i].st = "ok"
            /\ submits' = submits
            /\ delivered' = NoResult
            /\ fetches' = fetches]_vars

\* C18 witness: an add failed and an update succeeded; only the update
\* closed the dialogs, and each call shows a message of its own operation.
C18_Witness ==
    /\ Len(calls) = 2
    /\ calls[1].op = "add" /\ calls[1].st = "failed"
    /\ calls[2].op = "update" /\ calls[2].st = "ok"
    /\ CloseAlls(calls) = {<<2, 2>>}
    /\ calls[1].effects[2].msg = MsgCreateFailed
    /\ calls[2].effects[1].msg = MsgUpdated

\* C19 as claimed: a run of onSubmit leaves the form untouched in both
\* modes: the controls, the value the form reports for each field (id
\* included), isEditing and produtoId are the same after it as before it.
C19_SubmitLeavesFormUntouched ==
    [][submits' = submits + 1 =>
            /\ produtoForm' = produtoForm
            /\ formValue' = formValue
            /\ isEditing' = isEditing
            /\ produtoId' = produtoId]_vars

=============================================================================
